---------------------------- MODULE Spec2Model ----------------------------
(***************************************************************************)
(* A model of script.js, the client-side logic of TradieTalk: the account  *)
(* map and session pointer kept in localStorage (registerUser, loginUser,  *)
(* logoutUser), the dashboard gate (initDashboard), the line-item ledger   *)
(* (addItemRow, the remove handler, updateRowTotal), the totals            *)
(* (recalcTotals) and the three exports (PDF, speech, e-mail).             *)
(*                                                                         *)
(* Text is a sequence of one-character strings, so that trim() and         *)
(* toLowerCase() are computed.  A JavaScript number is a record            *)
(* [k, v]: k = "fin" with v the value in units of 1/Scale, or k = "inf"    *)
(* (Infinity), or k = "nan" (NaN).  Only non-negative numbers occur.       *)
(***************************************************************************)
EXTENDS Integers, Sequences, FiniteSets, TLC

VARIABLES
  supabase,         \* TRUE when the Supabase client was created (line 21-29)
  users,            \* localStorage 'users': normalised e-mail -> account
  currentUser,      \* localStorage 'currentUser': an e-mail, or None
  provSession,      \* the identity provider holds a session
  page,             \* the document shown: "signup", "login" or "voice"
  pending,          \* the provider call being awaited, or "none"
  signupError,      \* #signupError: "hidden", or the message shown
  loginError,       \* #loginError: "hidden" or "shown"
  dashInit,         \* initDashboard ran to its end on this document
  lastAuth,         \* the last register / login / logout that completed
  itemRows,         \* the itemRows array (line 224)
  tableBody,        \* the children of #itemsTable tbody, in order
  nextRow,          \* the number of rows created so far, plus one
  marginInput,      \* #margin .value (raw text)
  subtotalDisplay,  \* #subtotalDisplay .textContent
  gstDisplay,       \* #gstDisplay .textContent
  totalDisplay,     \* #totalDisplay .textContent
  synthQueue,       \* speechSynthesis: the utterance speaking, then the queued
  speakCount,       \* the number of read-quote requests so far
  artifact          \* what the last event exported, or NoArtifact

vars == << supabase, users, currentUser, provSession, page, pending,
           signupError, loginError, dashInit, lastAuth, itemRows, tableBody,
           nextRow, marginInput, subtotalDisplay, gstDisplay, totalDisplay,
           synthQueue, speakCount, artifact >>

authVars == << supabase, users, currentUser, provSession, page, pending,
               signupError, loginError, dashInit, lastAuth >>

ledgerVars == << itemRows, tableBody, nextRow, marginInput, subtotalDisplay,
                 gstDisplay, totalDisplay, synthQueue, speakCount, artifact >>

----------------------------------------------------------------------------
(* Bounds *)

\* Rows created on one dashboard, the initial row included.
MaxAdds == 3

\* Rows created on one dashboard where the exports are among the events.
MaxExportAdds == 2

\* Read-quote requests on one dashboard.
MaxSpeak == 2

----------------------------------------------------------------------------
(* Text *)

None == <<"none">>

LowerChar(c) ==
  CASE c = "A" -> "a"
    [] c = "B" -> "b"
    [] OTHER -> c

toLowerCase(s) == [i \in 1..Len(s) |-> LowerChar(s[i])]

RECURSIVE TrimLeft(_)
TrimLeft(s) ==
  IF s # <<>> /\ Head(s) = " " THEN TrimLeft(Tail(s)) ELSE s

RECURSIVE TrimRight(_)
TrimRight(s) ==
  IF s # <<>> /\ s[Len(s)] = " "
    THEN TrimRight(SubSeq(s, 1, Len(s) - 1))
    ELSE s

trim(s) == TrimRight(TrimLeft(s))

\* What the forms can hold.
RawEmails == { <<"a">>, <<" ", "A">>, <<"b">> }
RawNames == { <<"A", "l">>, <<"B", "o", " ">> }
Passwords == { "pw1", "pw2" }

----------------------------------------------------------------------------
(* Numbers *)

\* A number x is stored as x * Scale.
Scale == 10 * 100

\* The largest finite number, in units (Number.MAX_VALUE, with the
\* exponent range narrowed so that the stored value fits TLC's integers).
DblMax == 1797 * Scale

Fin(n) == [k |-> "fin", v |-> n]
Infinity == [k |-> "inf", v |-> 0]
NaN == [k |-> "nan", v |-> 0]

Num(units) == Fin(units * Scale)

\* a * b
FMul(a, b) ==
  CASE a.k = "nan" \/ b.k = "nan" -> NaN
    [] a.k = "inf" /\ b.k = "inf" -> Infinity
    [] a.k = "inf" -> IF b.v = 0 THEN NaN ELSE Infinity
    [] b.k = "inf" -> IF a.v = 0 THEN NaN ELSE Infinity
    [] OTHER ->
         IF a.v = 0 \/ b.v = 0 THEN Fin(0)
         ELSE IF a.v > (DblMax * Scale) \div b.v THEN Infinity
         ELSE Fin((a.v * b.v) \div Scale)

\* a + b
FAdd(a, b) ==
  CASE a.k = "nan" \/ b.k = "nan" -> NaN
    [] a.k = "inf" \/ b.k = "inf" -> Infinity
    [] OTHER -> IF a.v + b.v > DblMax THEN Infinity ELSE Fin(a.v + b.v)

\* a / b, for a finite b # 0
FDiv(a, b) ==
  CASE a.k = "nan" -> NaN
    [] a.k = "inf" -> Infinity
    [] OTHER -> Fin((a.v * Scale) \div b.v)

\* x || 0 : NaN and 0 are falsy
OrZero(x) == IF x.k = "nan" \/ (x.k = "fin" /\ x.v = 0) THEN Fin(0) ELSE x

\* parseFloat(raw) of the raw texts the inputs are given.  '1e308' is a
\* number whose square exceeds the largest double; here it is 1000, whose
\* square exceeds DblMax.
parseFloat(raw) ==
  CASE raw = "0" -> Num(0)
    [] raw = "2" -> Num(2)
    [] raw = "10" -> Num(10)
    [] raw = "45.00" -> Num(45)
    [] raw = "1e308" -> Num(1000)
    [] OTHER -> NaN

\* x.toFixed(2): the text of x rounded to cents; v is the number of cents
toFixed2(x) ==
  IF x.k = "fin"
    THEN [k |-> "fin", v |-> (x.v * 100 + Scale \div 2) \div Scale]
    ELSE x

RawQty == { "0", "2", "abc" }
RawPrice == { "0", "45.00" }
RawHuge == { "1e308" }
RawMargin == { "", "10" }
Descriptions == { "", "Install tap" }


----------------------------------------------------------------------------
(* The ledger of a document that is not an initialised dashboard *)

ZeroText == toFixed2(Num(0))

NoArtifact == [kind |-> "none"]

NoLedger ==
  /\ itemRows' = <<>>
  /\ tableBody' = <<>>
  /\ nextRow' = 1
  /\ marginInput' = ""
  /\ subtotalDisplay' = ZeroText
  /\ gstDisplay' = ZeroText
  /\ totalDisplay' = ZeroText
  /\ synthQueue' = <<>>
  /\ speakCount' = 0
  /\ artifact' = NoArtifact

\* window.location.href = p : the document is replaced, and with it the
\* form messages, the ledger and any continuation still awaited.
Goto(p) ==
  /\ page' = p
  /\ dashInit' = FALSE
  /\ signupError' = "hidden"
  /\ loginError' = "hidden"
  /\ NoLedger

----------------------------------------------------------------------------
(* Authentication *)

\* getUsers()[email] is truthy
Registered(email) == email \in DOMAIN users

\* saveUsers(users) after users[email] = { name, email, password }
saveUsers(email, account) ==
  users' = [e \in DOMAIN users \cup {email} |->
              IF e = email THEN account ELSE users[e]]

\* registerUser() without the test of users[email]: the account is
\* written whether or not the e-mail is registered.
registerUser_Overwrites(rawName, rawEmail, password) ==
  LET name == trim(rawName)
      email == toLowerCase(trim(rawEmail))
  IN
  /\ page = "signup"
  /\ pending = "none"
  /\ IF supabase
       THEN /\ pending' = "signUp"
            /\ signupError' = "hidden"
            /\ UNCHANGED << users, currentUser, page, dashInit, loginError,
                            lastAuth, ledgerVars >>
       ELSE /\ saveUsers(email, [name |-> name, email |-> email,
                                 password |-> password])
            /\ currentUser' = email
            /\ lastAuth' = "register"
            /\ Goto("voice")
            /\ UNCHANGED pending
  /\ UNCHANGED << supabase, provSession >>

\* registerUser(), with the sign-up form holding rawName, rawEmail, password.
\* One provider call is awaited at a time (pending); without a provider
\* nothing is ever awaited.
registerUser(rawName, rawEmail, password) ==
  LET name == trim(rawName)
      email == toLowerCase(trim(rawEmail))
  IN
  /\ page = "signup"
  /\ pending = "none"
  /\ IF supabase
       THEN /\ pending' = "signUp"
            /\ signupError' = "hidden"
            /\ UNCHANGED << users, currentUser, page, dashInit, loginError,
                            lastAuth, ledgerVars >>
       ELSE IF Registered(email)
         THEN /\ signupError' = "duplicate"
              /\ UNCHANGED << users, currentUser, page, dashInit, loginError,
                              lastAuth, pending, ledgerVars >>
         ELSE /\ saveUsers(email, [name |-> name, email |-> email,
                                   password |-> password])
              /\ currentUser' = email
              /\ lastAuth' = "register"
              /\ Goto("voice")
              /\ UNCHANGED pending
  /\ UNCHANGED << supabase, provSession >>

\* The continuation of registerUser after await supabase.auth.signUp
SignUpResolve(ok) ==
  /\ pending = "signUp"
  /\ pending' = "none"
  /\ IF ok
       THEN /\ \E s \in {TRUE, provSession} : provSession' = s
            /\ lastAuth' = "register"
            /\ Goto("voice")
       ELSE /\ signupError' = "provider"
            /\ UNCHANGED << provSession, lastAuth, page, dashInit,
                            loginError, ledgerVars >>
  /\ UNCHANGED << supabase, users, currentUser >>

\* loginUser() without the comparison of the password
loginUser_AnyPassword(rawEmail, password) ==
  LET email == toLowerCase(trim(rawEmail))
  IN
  /\ page = "login"
  /\ pending = "none"
  /\ IF supabase
       THEN /\ pending' = "signIn"
            /\ loginError' = "hidden"
            /\ UNCHANGED << currentUser, page, dashInit, signupError,
                            lastAuth, ledgerVars >>
       ELSE IF ~Registered(email)
         THEN /\ loginError' = "shown"
              /\ UNCHANGED << currentUser, page, dashInit, signupError,
                              lastAuth, pending, ledgerVars >>
         ELSE /\ currentUser' = email
              /\ lastAuth' = "login"
              /\ Goto("voice")
              /\ UNCHANGED pending
  /\ UNCHANGED << supabase, users, provSession >>

\* loginUser(), with the login form holding rawEmail, password
loginUser(rawEmail, password) ==
  LET email == toLowerCase(trim(rawEmail))
  IN
  /\ page = "login"
  /\ pending = "none"
  /\ IF supabase
       THEN /\ pending' = "signIn"
            /\ loginError' = "hidden"
            /\ UNCHANGED << currentUser, page, dashInit, signupError,
                            lastAuth, ledgerVars >>
       ELSE IF ~Registered(email) \/ users[email].password # password
         THEN /\ loginError' = "shown"
              /\ UNCHANGED << currentUser, page, dashInit, signupError,
                              lastAuth, pending, ledgerVars >>
         ELSE /\ currentUser' = email
              /\ lastAuth' = "login"
              /\ Goto("voice")
              /\ UNCHANGED pending
  /\ UNCHANGED << supabase, users, provSession >>

\* The continuation of loginUser after await signInWithPassword
SignInResolve(ok) ==
  /\ pending = "signIn"
  /\ pending' = "none"
  /\ IF ok
       THEN /\ provSession' = TRUE
            /\ lastAuth' = "login"
            /\ Goto("voice")
       ELSE /\ loginError' = "shown"
            /\ UNCHANGED << provSession, lastAuth, page, dashInit,
                            signupError, ledgerVars >>
  /\ UNCHANGED << supabase, users, currentUser >>

\* logoutUser() without a provider: no await is met, so the whole body
\* runs in the click.
logoutLocal ==
  /\ currentUser' = None
  /\ lastAuth' = "logout"
  /\ Goto("login")
  /\ UNCHANGED << supabase, users, provSession, pending >>

\* logoutUser(), from the logout link of an initialised dashboard
logoutUser ==
  /\ page = "voice"
  /\ dashInit
  /\ pending = "none"
  /\ IF supabase
       THEN /\ pending' = "signOut"
            /\ UNCHANGED << supabase, users, currentUser, provSession, page,
                            signupError, loginError, dashInit, lastAuth,
                            ledgerVars >>
       ELSE logoutLocal

\* The continuation of logoutUser without the try/catch: a rejection of
\* signOut() ends the function before the pointer is removed.
SignOutResolve_Uncaught(ok) ==
  /\ pending = "signOut"
  /\ pending' = "none"
  /\ IF ok
       THEN /\ provSession' = FALSE
            /\ currentUser' = None
            /\ lastAuth' = "logout"
            /\ Goto("login")
       ELSE /\ \E s \in {FALSE, provSession} : provSession' = s
            /\ lastAuth' = "logout"
            /\ UNCHANGED << currentUser, page, dashInit, signupError,
                            loginError, ledgerVars >>
  /\ UNCHANGED << supabase, users >>

\* The continuation of logoutUser after await supabase.auth.signOut():
\* a rejection is caught and logged; the provider then may or may not
\* have dropped its session.
SignOutResolve(ok) ==
  /\ pending = "signOut"
  /\ pending' = "none"
  /\ IF ok
       THEN provSession' = FALSE
       ELSE \E s \in {FALSE, provSession} : provSession' = s
  /\ currentUser' = None
  /\ lastAuth' = "logout"
  /\ Goto("login")
  /\ UNCHANGED << supabase, users >>

\* The user opens one of the site's documents.
OpenPage(p) ==
  /\ Goto(p)
  /\ pending' = "none"
  /\ UNCHANGED << supabase, users, currentUser, provSession, lastAuth >>


----------------------------------------------------------------------------
(* The ledger and its totals *)

\* The row addItemRow builds: a blank description, quantity '0', price '0'
\* and a total cell reading '0.00'.  row is the identity of the <tr>.
BlankRow(id) ==
  [row |-> id, desc |-> "", qty |-> "0", price |-> "0", totalTd |-> ZeroText]

\* addItemRow(): the new <tr> is appended to the table body and its entry
\* pushed on itemRows.
addItemRow(rows, body, n) ==
  /\ tableBody' = Append(body, n)
  /\ itemRows' = Append(rows, BlankRow(n))
  /\ nextRow' = n + 1

\* qty * price of one entry, as recalcTotals and the exports read it
LineTotal(item) ==
  FMul(OrZero(parseFloat(item.qty)), OrZero(parseFloat(item.price)))

\* The forEach of recalcTotals: subtotal += qty * price, from the first
\* entry to the last, starting from acc.
RECURSIVE SumFrom(_, _, _)
SumFrom(rows, i, acc) ==
  IF i > Len(rows) THEN acc
  ELSE SumFrom(rows, i + 1, FAdd(acc, LineTotal(rows[i])))

\* The totals with the tax taken on the subtotal before the margin
Totals_TaxBeforeMargin(rows, marginRaw) ==
  LET subtotal == SumFrom(rows, 1, Num(0))
      margin == OrZero(parseFloat(marginRaw))
      subtotalWithMargin ==
        FAdd(subtotal, FMul(subtotal, FDiv(margin, Num(100))))
      gst == FMul(subtotal, Fin(Scale \div 10))
      total == FAdd(subtotalWithMargin, gst)
  IN [subtotal |-> subtotal, subtotalWithMargin |-> subtotalWithMargin,
      gst |-> gst, total |-> total]

\* The numbers recalcTotals computes from the entries and the margin text
Totals(rows, marginRaw) ==
  LET subtotal == SumFrom(rows, 1, Num(0))
      margin == OrZero(parseFloat(marginRaw))
      subtotalWithMargin ==
        FAdd(subtotal, FMul(subtotal, FDiv(margin, Num(100))))
      gst == FMul(subtotalWithMargin, Fin(Scale \div 10))
      total == FAdd(subtotalWithMargin, gst)
  IN [subtotal |-> subtotal, subtotalWithMargin |-> subtotalWithMargin,
      gst |-> gst, total |-> total]

\* recalcTotals(), reading the entries rows and the margin text marginRaw
recalcTotals(rows, marginRaw) ==
  LET t == Totals(rows, marginRaw)
  IN /\ subtotalDisplay' = toFixed2(t.subtotal)
     /\ gstDisplay' = toFixed2(t.gst)
     /\ totalDisplay' = toFixed2(t.total)

\* itemRows.findIndex((r) => r.row === row), 0 when there is none
RECURSIVE FindIndex(_, _, _)
FindIndex(rows, row, i) ==
  IF i > Len(rows) THEN 0
  ELSE IF rows[i].row = row THEN i
  ELSE FindIndex(rows, row, i + 1)

\* seq.splice(i): everything from i on is removed
Splice_ToEnd(seq, i) == SubSeq(seq, 1, i - 1)

\* seq.splice(i, 1)
Splice(seq, i) == SubSeq(seq, 1, i - 1) \o SubSeq(seq, i + 1, Len(seq))

\* itemsTableBody.removeChild(row)
RECURSIVE RemoveChild(_, _)
RemoveChild(body, row) ==
  IF body = <<>> THEN <<>>
  ELSE IF Head(body) = row THEN Tail(body)
  ELSE <<Head(body)>> \o RemoveChild(Tail(body), row)

InTable(row) == \E i \in 1..Len(tableBody) : tableBody[i] = row

OnDashboard == page = "voice" /\ dashInit

\* The click handler of addItemBtn
AddItemClick ==
  /\ OnDashboard
  /\ addItemRow(itemRows, tableBody, nextRow)
  /\ artifact' = NoArtifact
  /\ UNCHANGED << authVars, marginInput, subtotalDisplay, gstDisplay,
                  totalDisplay, synthQueue, speakCount >>

\* The click handler of a row's remove button
RemoveClick(row) ==
  /\ OnDashboard
  /\ InTable(row)
  /\ tableBody' = RemoveChild(tableBody, row)
  /\ LET idx == FindIndex(itemRows, row, 1)
     IN itemRows' = IF idx > 0 THEN Splice(itemRows, idx) ELSE itemRows
  /\ recalcTotals(itemRows', marginInput)
  /\ artifact' = NoArtifact
  /\ UNCHANGED << authVars, nextRow, marginInput, synthQueue, speakCount >>

\* updateRowTotal() of one entry: the total cell is rewritten
updateRowTotal(item) ==
  [item EXCEPT !.totalTd = toFixed2(LineTotal(item))]

\* An input event on a row's quantity or price field (field is "qty" or
\* "price"): the field holds raw, then updateRowTotal runs, which ends in
\* recalcTotals.
InputNumber(row, field, raw) ==
  /\ OnDashboard
  /\ InTable(row)
  /\ itemRows' = [i \in 1..Len(itemRows) |->
                    IF itemRows[i].row = row
                      THEN updateRowTotal([itemRows[i] EXCEPT ![field] = raw])
                      ELSE itemRows[i]]
  /\ recalcTotals(itemRows', marginInput)
  /\ artifact' = NoArtifact
  /\ UNCHANGED << authVars, tableBody, nextRow, marginInput, synthQueue,
                  speakCount >>

\* Typing in a row's description field: no listener is attached to it.
InputDesc(row, text) ==
  /\ OnDashboard
  /\ InTable(row)
  /\ itemRows' = [i \in 1..Len(itemRows) |->
                    IF itemRows[i].row = row
                      THEN [itemRows[i] EXCEPT !.desc = text]
                      ELSE itemRows[i]]
  /\ artifact' = NoArtifact
  /\ UNCHANGED << authVars, tableBody, nextRow, marginInput, subtotalDisplay,
                  gstDisplay, totalDisplay, synthQueue, speakCount >>

\* Typing in the margin field: no listener is attached to it.
InputMargin(raw) ==
  /\ OnDashboard
  /\ marginInput' = raw
  /\ artifact' = NoArtifact
  /\ UNCHANGED << authVars, itemRows, tableBody, nextRow, subtotalDisplay,
                  gstDisplay, totalDisplay, synthQueue, speakCount >>

\* The click handler of calculateBtn
CalculateClick ==
  /\ OnDashboard
  /\ recalcTotals(itemRows, marginInput)
  /\ artifact' = NoArtifact
  /\ UNCHANGED << authVars, itemRows, tableBody, nextRow, marginInput,
                  synthQueue, speakCount >>


----------------------------------------------------------------------------
(* The exports *)

\* users[currentEmail] || { name: 'Tradie' }, then .name
UserName ==
  IF currentUser \in DOMAIN users THEN users[currentUser].name
  ELSE <<"T", "r", "a", "d", "i", "e">>

\* text || fallback
OrText(text, fallback) == IF text = "" THEN fallback ELSE text

\* The table rows of the PDF (descriptions here are under 40 characters,
\* which substring(0, 40) keeps whole)
PdfItems(rows) ==
  [i \in 1..Len(rows) |->
     [desc |-> OrText(rows[i].desc, ""),
      qty |-> OrZero(parseFloat(rows[i].qty)),
      price |-> toFixed2(OrZero(parseFloat(rows[i].price))),
      total |-> toFixed2(LineTotal(rows[i]))]]

\* The item sentences of the spoken text
SpeechItems(rows) ==
  [i \in 1..Len(rows) |->
     [desc |-> OrText(rows[i].desc, "item"),
      qty |-> OrZero(parseFloat(rows[i].qty)),
      price |-> OrZero(parseFloat(rows[i].price))]]

\* The item lines of the e-mail body
EmailItems(rows) ==
  [i \in 1..Len(rows) |->
     [desc |-> OrText(rows[i].desc, "item"),
      qty |-> OrZero(parseFloat(rows[i].qty)),
      price |-> toFixed2(OrZero(parseFloat(rows[i].price))),
      total |-> toFixed2(LineTotal(rows[i]))]]

\* What an export writes: the sender, the item lines, then the margin
\* text and the three totals as the display elements show them.
Export(kind, items) ==
  artifact' = [kind |-> kind, from |-> UserName, items |-> items,
               subtotal |-> subtotalDisplay', margin |-> marginInput,
               gst |-> gstDisplay', total |-> totalDisplay']

\* The click handler of generatePdfBtn without its first line, the call
\* of recalcTotals()
GeneratePdfClick_NoRecalc ==
  /\ OnDashboard
  /\ UNCHANGED << subtotalDisplay, gstDisplay, totalDisplay >>
  /\ Export("pdf", PdfItems(itemRows))
  /\ UNCHANGED << authVars, itemRows, tableBody, nextRow, marginInput,
                  synthQueue, speakCount >>

\* The click handler of generatePdfBtn
GeneratePdfClick ==
  /\ OnDashboard
  /\ recalcTotals(itemRows, marginInput)
  /\ Export("pdf", PdfItems(itemRows))
  /\ UNCHANGED << authVars, itemRows, tableBody, nextRow, marginInput,
                  synthQueue, speakCount >>

\* A cancel() that drops nothing
cancel_KeepsQueue(queue) == queue

\* synth.cancel(): the utterance speaking and all queued ones are dropped
cancel(queue) == <<>>

\* synth.speak(utterance)
speak(queue, utterance) == Append(queue, utterance)

\* The click handler of readQuoteBtn.  window.speechSynthesis exists on an
\* initialised dashboard (populateVoices used it), so the early return is
\* not taken.  An utterance is identified by the number of its request.
ReadQuoteClick ==
  /\ OnDashboard
  /\ recalcTotals(itemRows, marginInput)
  /\ Export("speech", SpeechItems(itemRows))
  /\ speakCount' = speakCount + 1
  /\ synthQueue' = speak(cancel(synthQueue), speakCount + 1)
  /\ UNCHANGED << authVars, itemRows, tableBody, nextRow, marginInput >>

\* The synthesiser finishes the utterance it is speaking.
UtteranceEnd ==
  /\ OnDashboard
  /\ synthQueue # <<>>
  /\ synthQueue' = Tail(synthQueue)
  /\ artifact' = NoArtifact
  /\ UNCHANGED << authVars, itemRows, tableBody, nextRow, marginInput,
                  subtotalDisplay, gstDisplay, totalDisplay, speakCount >>

\* The click handler of sendEmailBtn: a mailto: link is followed, which
\* leaves the document in place.
SendEmailClick ==
  /\ OnDashboard
  /\ recalcTotals(itemRows, marginInput)
  /\ Export("email", EmailItems(itemRows))
  /\ UNCHANGED << authVars, itemRows, tableBody, nextRow, marginInput,
                  synthQueue, speakCount >>

----------------------------------------------------------------------------
(* The dashboard gate *)

\* The rest of initDashboard once the gate is passed: the logout handler
\* is attached, the first row added and the buttons wired.  The margin
\* field holds what the markup gives it; the totals read 0.00.
StartDashboard ==
  /\ dashInit' = TRUE
  /\ addItemRow(<<>>, <<>>, 1)
  /\ marginInput' \in RawMargin
  /\ subtotalDisplay' = ZeroText
  /\ gstDisplay' = ZeroText
  /\ totalDisplay' = ZeroText
  /\ synthQueue' = <<>>
  /\ speakCount' = 0
  /\ artifact' = NoArtifact
  /\ UNCHANGED << page, signupError, loginError >>

\* !localStorage.getItem('currentUser'): no item, or an empty one
NoCurrentUser == currentUser = None \/ currentUser = <<>>

\* initDashboard(), when the dashboard document is ready
initDashboard ==
  /\ page = "voice"
  /\ ~dashInit
  /\ pending = "none"
  /\ IF supabase
       THEN /\ pending' = "getSession"
            /\ UNCHANGED << page, dashInit, signupError, loginError,
                            ledgerVars >>
       ELSE /\ IF NoCurrentUser THEN Goto("login") ELSE StartDashboard
            /\ UNCHANGED pending
  /\ UNCHANGED << supabase, users, currentUser, provSession, lastAuth >>

\* The continuation of initDashboard after await supabase.auth.getSession():
\* the call answers with the provider's session, or throws.
GetSessionResolve(ok) ==
  /\ pending = "getSession"
  /\ pending' = "none"
  /\ IF ok /\ provSession THEN StartDashboard ELSE Goto("login")
  /\ UNCHANGED << supabase, users, currentUser, provSession, lastAuth >>


----------------------------------------------------------------------------
(* Specifications *)

Pages == { "signup", "login", "voice" }

Rows == 1..MaxAdds

NoUsers == [e \in {} |-> None]

\* An account an earlier visit left in localStorage
StoredAccount ==
  [e \in { <<"a">> } |->
     [name |-> <<"A", "l">>, email |-> <<"a">>, password |-> "pw1"]]

\* The site is opened on its login page.  localStorage is empty or holds
\* what an earlier visit left; with a provider, so may its session.
Init ==
  /\ supabase \in BOOLEAN
  /\ users \in { NoUsers, StoredAccount }
  /\ currentUser \in { None } \cup DOMAIN users
  /\ provSession \in { FALSE, supabase }
  /\ page = "login"
  /\ pending = "none"
  /\ signupError = "hidden"
  /\ loginError = "hidden"
  /\ dashInit = FALSE
  /\ lastAuth = "none"
  /\ itemRows = <<>>
  /\ tableBody = <<>>
  /\ nextRow = 1
  /\ marginInput = ""
  /\ subtotalDisplay = ZeroText
  /\ gstDisplay = ZeroText
  /\ totalDisplay = ZeroText
  /\ synthQueue = <<>>
  /\ speakCount = 0
  /\ artifact = NoArtifact

\* Accounts, sessions and the dashboard gate
Next ==
  \/ \E n \in RawNames, e \in RawEmails, p \in Passwords : registerUser(n, e, p)
  \/ \E ok \in BOOLEAN : SignUpResolve(ok)
  \/ \E e \in RawEmails, p \in Passwords : loginUser(e, p)
  \/ \E ok \in BOOLEAN : SignInResolve(ok)
  \/ logoutUser
  \/ \E ok \in BOOLEAN : SignOutResolve(ok)
  \/ \E p \in Pages : OpenPage(p)
  \/ initDashboard
  \/ \E ok \in BOOLEAN : GetSessionResolve(ok)

Spec == Init /\ [][Next]_vars

\* A dashboard just initialised for a registered user, without a provider
InitLedger ==
  /\ supabase = FALSE
  /\ users = StoredAccount
  /\ currentUser = <<"a">>
  /\ provSession = FALSE
  /\ page = "voice"
  /\ pending = "none"
  /\ signupError = "hidden"
  /\ loginError = "hidden"
  /\ dashInit = TRUE
  /\ lastAuth = "register"
  /\ itemRows = << BlankRow(1) >>
  /\ tableBody = << 1 >>
  /\ nextRow = 2
  /\ marginInput \in RawMargin
  /\ subtotalDisplay = ZeroText
  /\ gstDisplay = ZeroText
  /\ totalDisplay = ZeroText
  /\ synthQueue = <<>>
  /\ speakCount = 0
  /\ artifact = NoArtifact

\* The edits of the ledger and the Calculate button
NextLedger ==
  \/ nextRow <= MaxAdds /\ AddItemClick
  \/ \E r \in Rows : RemoveClick(r)
  \/ \E r \in Rows, raw \in RawQty : InputNumber(r, "qty", raw)
  \/ \E r \in Rows, raw \in RawPrice : InputNumber(r, "price", raw)
  \/ \E r \in Rows, d \in Descriptions : InputDesc(r, d)
  \/ \E raw \in RawMargin : InputMargin(raw)
  \/ CalculateClick

SpecLedger == InitLedger /\ [][NextLedger]_vars

\* The same, with the number fields also given a number near the top of
\* the double range
NextRange ==
  \/ nextRow <= MaxAdds /\ AddItemClick
  \/ \E r \in Rows : RemoveClick(r)
  \/ \E r \in Rows, raw \in RawQty \cup RawHuge : InputNumber(r, "qty", raw)
  \/ \E r \in Rows, raw \in RawPrice \cup RawHuge : InputNumber(r, "price", raw)
  \/ \E raw \in RawMargin : InputMargin(raw)
  \/ CalculateClick

SpecRange == InitLedger /\ [][NextRange]_vars

\* The edits of the ledger and the three exports
NextExport ==
  \/ nextRow <= MaxExportAdds /\ AddItemClick
  \/ \E r \in Rows : RemoveClick(r)
  \/ \E r \in Rows, raw \in RawQty : InputNumber(r, "qty", raw)
  \/ \E r \in Rows, raw \in RawPrice : InputNumber(r, "price", raw)
  \/ \E r \in Rows, d \in Descriptions : InputDesc(r, d)
  \/ \E raw \in RawMargin : InputMargin(raw)
  \/ GeneratePdfClick
  \/ speakCount < MaxSpeak /\ ReadQuoteClick
  \/ SendEmailClick

SpecExport == InitLedger /\ [][NextExport]_vars

\* The read-quote requests and the synthesiser, on a ledger of one row
NextSpeech ==
  \/ \E d \in Descriptions : InputDesc(1, d)
  \/ \E raw \in RawQty : InputNumber(1, "qty", raw)
  \/ \E raw \in RawPrice : InputNumber(1, "price", raw)
  \/ \E raw \in RawMargin : InputMargin(raw)
  \/ speakCount < MaxSpeak /\ ReadQuoteClick
  \/ UtteranceEnd

SpecSpeech == InitLedger /\ [][NextSpeech]_vars


----------------------------------------------------------------------------
(* Properties: accounts, sessions, the gate (checked under Spec) *)

\* The identifier the text raw names: trimmed, then compared without
\* regard to case
SameIdentifier(stored, raw) ==
  toLowerCase(trim(stored)) = toLowerCase(trim(raw))

Present(raw) == \E k \in DOMAIN users : SameIdentifier(k, raw)

\* C1: without a provider, registerUser with an identifier that the
\* account map already holds (compared case-insensitively after trimming)
\* fails with the duplicate message; the account map, and so the stored
\* name and secret, and the session pointer are left as they were.
C1_DuplicateRegisterFails ==
  [][ \A n \in RawNames, e \in RawEmails, p \in Passwords :
        (~supabase /\ Present(e) /\ registerUser(n, e, p))
          => /\ signupError' = "duplicate"
             /\ users' = users
             /\ currentUser' = currentUser
             /\ page' = page ]_vars

\* C1 witness: a register, a logout, then a register that failed as a
\* duplicate, the pointer still absent.
C1_Witness ==
  /\ ~supabase
  /\ signupError = "duplicate"
  /\ lastAuth = "logout"
  /\ currentUser = None
  /\ Cardinality(DOMAIN users) = 2

\* C2: without a provider, loginUser sets the session pointer to the
\* identifier exactly when the account exists and its stored secret is the
\* one supplied; otherwise the error is shown and the pointer and the
\* account map are left as they were.
C2_LoginChecksCredentials ==
  [][ \A e \in RawEmails, p \in Passwords :
        (~supabase /\ loginUser(e, p))
          => IF \E k \in DOMAIN users :
                  SameIdentifier(k, e) /\ users[k].password = p
               THEN /\ \E k \in DOMAIN users :
                         SameIdentifier(k, e) /\ currentUser' = k
                    /\ users' = users
                    /\ page' = "voice"
               ELSE /\ loginError' = "shown"
                    /\ currentUser' = currentUser
                    /\ users' = users
                    /\ page' = page ]_vars

\* C2 witness: a login refused while an account is stored and nobody is
\* logged in.
C2_Witness ==
  /\ ~supabase
  /\ loginError = "shown"
  /\ DOMAIN users # {}
  /\ currentUser = None
  /\ lastAuth = "logout"

\* A session is present: the provider's when there is a provider, the
\* local pointer otherwise.
SessionPresent == IF supabase THEN provSession ELSE currentUser # None

\* C3: the dashboard is initialised only when a session is present at
\* entry, and after a logout no dashboard entry initialises it until a
\* register or a login has succeeded.
C3_GateNeedsSession ==
  dashInit => (SessionPresent /\ lastAuth # "logout")

\* The first half of C3 alone: an initialised dashboard has a session.
GateSessionOnly == dashInit => SessionPresent

\* A logout completes in this step.
LogoutCompletes ==
  \/ ~supabase /\ logoutUser
  \/ \E ok \in BOOLEAN : SignOutResolve(ok)

\* C8: once a logout completes, with or without a provider and whether
\* or not signOut succeeded, the local session pointer is absent and the
\* account map is as before; a logout that finds the pointer absent
\* changes neither.
C8_LogoutClearsPointer ==
  [][ LogoutCompletes
        => /\ currentUser' = None
           /\ users' = users
           /\ (currentUser = None
                 => << users, currentUser >>' = << users, currentUser >>)
           /\ page' = "login" ]_vars

\* C8 witness: a logout completed although signOut failed (the provider
\* still holds its session), with an account stored.
C8_Witness ==
  /\ supabase
  /\ lastAuth = "logout"
  /\ provSession
  /\ currentUser = None
  /\ DOMAIN users # {}


----------------------------------------------------------------------------
(* Properties: the ledger and its totals *)

\* The number a raw text stands for, in whole units; 0 when it is not a
\* number.
Value(raw) ==
  CASE raw = "2" -> 2
    [] raw = "10" -> 10
    [] raw = "45.00" -> 45
    [] OTHER -> 0

Unparsable(raw) == raw \in { "", "abc" }

\* The rows the table shows
TableRows == { tableBody[i] : i \in 1..Len(tableBody) }

\* quantity * price of the row shown as <tr> r, in whole units
RowAmount(r) ==
  LET at == { i \in 1..Len(itemRows) : itemRows[i].row = r }
  IN IF at = {} THEN 0
     ELSE LET i == CHOOSE i \in at : TRUE
          IN Value(itemRows[i].qty) * Value(itemRows[i].price)

\* The sum of quantity * price over a set of rows, in no particular order
RECURSIVE Sum(_)
Sum(S) ==
  IF S = {} THEN 0
  ELSE LET r == CHOOSE r \in S : TRUE
       IN RowAmount(r) + Sum(S \ {r})

\* C4: for every ledger that adding rows, removing rows and editing
\* fields can reach, and every margin m >= 0, the totals computation gives
\* subtotal = the sum of quantity * price over the current rows,
\* taxable = subtotal * (1 + m/100), tax = taxable / 10 and
\* total = taxable + tax, exactly; the empty ledger gives zeros, and
\* [{qty 2, price 45.00}] with margin 10 gives 90.00, 9.90 and 108.90.
C4_TotalsFormula ==
  LET t == Totals(itemRows, marginInput)
      S == Sum(TableRows)
      m == Value(marginInput)
  IN /\ t.subtotal = Num(S)
     /\ t.subtotalWithMargin.k = "fin"
     /\ t.subtotalWithMargin.v * 100 = S * Scale * (100 + m)
     /\ t.gst.k = "fin"
     /\ t.gst.v * 10 = t.subtotalWithMargin.v
     /\ t.total = Fin(t.subtotalWithMargin.v + t.gst.v)
     /\ (itemRows = <<>> =>
           /\ t.subtotal = Num(0) /\ t.gst = Num(0) /\ t.total = Num(0))
     /\ (/\ Len(itemRows) = 1
         /\ itemRows[1].qty = "2"
         /\ itemRows[1].price = "45.00"
         /\ marginInput = "10"
         => /\ toFixed2(t.subtotal) = Fin(9000)
            /\ toFixed2(t.gst) = Fin(990)
            /\ toFixed2(t.total) = Fin(10890))

\* C4 witness: the ledger [{Install tap, 2, 45.00}] with margin 10, the
\* total recomputed and reading 108.90; it was reached after other rows
\* were added and removed.
C4_Witness ==
  /\ Len(itemRows) = 1
  /\ itemRows[1].row = 2
  /\ itemRows[1].desc = "Install tap"
  /\ itemRows[1].qty = "2"
  /\ itemRows[1].price = "45.00"
  /\ marginInput = "10"
  /\ nextRow = 4
  /\ subtotalDisplay = Fin(9000)
  /\ gstDisplay = Fin(990)
  /\ totalDisplay = Fin(10890)

\* C5: after every edit (a quantity or price change, a row added or
\* removed, a margin change) the displayed subtotal, tax and total are the
\* totals of the current ledger and the current margin.
C5_DisplayFollowsEdits ==
  LET t == Totals(itemRows, marginInput)
  IN /\ subtotalDisplay = toFixed2(t.subtotal)
     /\ gstDisplay = toFixed2(t.gst)
     /\ totalDisplay = toFixed2(t.total)

\* The displayed subtotal alone follows every edit (it does not read the
\* margin).
SubtotalFollowsEdits ==
  subtotalDisplay = toFixed2(Totals(itemRows, marginInput).subtotal)

\* C6: a quantity or price that does not parse makes the row's line total
\* 0, and no NaN appears in a row total, the subtotal, the tax or the
\* total.
C6_NoInvalidNumber ==
  /\ \A i \in 1..Len(itemRows) :
       /\ (Unparsable(itemRows[i].qty) \/ Unparsable(itemRows[i].price))
            => itemRows[i].totalTd = ZeroText
       /\ itemRows[i].totalTd.k # "nan"
  /\ subtotalDisplay.k # "nan"
  /\ gstDisplay.k # "nan"
  /\ totalDisplay.k # "nan"

\* The first half of C6 alone: unparsable text counts as 0.
UnparsableIsZero ==
  /\ \A i \in 1..Len(itemRows) :
       (Unparsable(itemRows[i].qty) \/ Unparsable(itemRows[i].price))
         => /\ itemRows[i].totalTd = ZeroText
            /\ LineTotal(itemRows[i]) = Num(0)
  /\ Unparsable(marginInput) =>
       Totals(itemRows, marginInput).subtotalWithMargin
         = Totals(itemRows, marginInput).subtotal

\* The entries list the rows of the table, in the table's order.
SameSequence ==
  /\ Len(itemRows) = Len(tableBody)
  /\ \A i \in 1..Len(itemRows) : itemRows[i].row = tableBody[i]

\* The rows stand in the order in which they were added.
InsertionOrder ==
  \A i, j \in 1..Len(tableBody) : i < j => tableBody[i] < tableBody[j]

\* The entry of row r
EntryOf(r) == itemRows[CHOOSE i \in 1..Len(itemRows) : itemRows[i].row = r]

\* C7: removing row r leaves exactly the other rows, in their order and
\* with their description, quantity and price, and lowers the subtotal by
\* r's line total; a new row is appended at the end; so the rows always
\* stand in insertion order and the entries list is the table's sequence.
C7_RemoveTouchesOneRow ==
  /\ [](SameSequence /\ InsertionOrder)
  /\ [][ \A r \in Rows :
           RemoveClick(r) =>
             LET Others(e) == e.row # r
                 OtherRows(x) == x # r
             IN /\ itemRows' = SelectSeq(itemRows, Others)
                /\ Len(itemRows') = Len(itemRows) - 1
                /\ tableBody' = SelectSeq(tableBody, OtherRows)
                /\ Totals(itemRows', marginInput).subtotal.v
                     = Totals(itemRows, marginInput).subtotal.v
                         - LineTotal(EntryOf(r)).v
                /\ subtotalDisplay'
                     = toFixed2(Totals(itemRows', marginInput).subtotal) ]_vars
  /\ [][ AddItemClick =>
           /\ itemRows' = Append(itemRows, BlankRow(nextRow))
           /\ tableBody' = Append(tableBody, nextRow)
           /\ \A i \in 1..Len(tableBody) : tableBody[i] < nextRow ]_vars

\* C7 witness: the middle one of three rows was removed; the first and
\* the last remain, filled in, and the subtotal reads 180.00.
C7_Witness ==
  /\ tableBody = << 1, 3 >>
  /\ Len(itemRows) = 2
  /\ \A i \in 1..2 :
       /\ itemRows[i].desc = "Install tap"
       /\ itemRows[i].qty = "2"
       /\ itemRows[i].price = "45.00"
  /\ subtotalDisplay = Fin(18000)

----------------------------------------------------------------------------
(* Properties: the exports *)

\* C9: every read-quote request cancels what is speaking or queued before
\* it enqueues its own utterance, so the synthesiser holds at most one
\* utterance, and it is the one of the latest request.
C9_LastRequestWins ==
  /\ Len(synthQueue) <= 1
  /\ synthQueue # <<>> => synthQueue[1] = speakCount

\* C9 witness: a second request was made and its utterance is the only
\* one held.
C9_Witness ==
  /\ speakCount >= 2
  /\ synthQueue = << speakCount >>

\* What an export shows of a description
Shown(kind, desc) == IF desc = "" /\ kind # "pdf" THEN "item" ELSE desc

\* C10: what an export writes is the ledger and the totals as they are
\* when it runs: its subtotal, tax and total are those computed from the
\* current rows and margin, and its items are the current rows, in order.
C10_ExportReadsCurrent ==
  artifact.kind # "none" =>
    LET t == Totals(itemRows, marginInput)
    IN /\ artifact.subtotal = toFixed2(t.subtotal)
       /\ artifact.gst = toFixed2(t.gst)
       /\ artifact.total = toFixed2(t.total)
       /\ artifact.margin = marginInput
       /\ SameSequence
       /\ Len(artifact.items) = Len(tableBody)
       /\ \A i \in 1..Len(tableBody) :
            LET item == artifact.items[i]
                e == EntryOf(tableBody[i])
            IN /\ item.desc = Shown(artifact.kind, e.desc)
               /\ item.qty = Num(Value(e.qty))
               /\ item.price.v = IF artifact.kind = "speech"
                                   THEN Value(e.price) * Scale
                                   ELSE Value(e.price) * 100
               /\ artifact.kind # "speech" =>
                    item.total = Fin(Value(e.qty) * Value(e.price) * 100)

\* C10 witness: an e-mail written with two rows in the ledger, the first
\* blank and the second 2 x 45.00, and margin 10: its lines are in that
\* order and its total reads 108.90.
C10_Witness ==
  /\ artifact.kind = "email"
  /\ tableBody = << 1, 2 >>
  /\ Len(artifact.items) = 2
  /\ artifact.items[1].total = Fin(0)
  /\ artifact.items[2].total = Fin(9000)
  /\ artifact.margin = "10"
  /\ artifact.total = Fin(10890)

=============================================================================
